---- MODULE Spec2Model ----
(***************************************************************************)
(* Model of admsync.py: reconciliation of the luckperms group grants with  *)
(* the group membership of the adminmanager database.                      *)
(*                                                                         *)
(* A python dict is a record [order, map]: the keys in insertion order and *)
(* the mapping.  SQL NULL and python None are the value NULL.  A string    *)
(* concatenation 'prefix' + x is the pair <<prefix, x>>.  A table is a bag *)
(* of rows.  The permissions store is transactional (autocommit is off in  *)
(* mysql.connector): lpdb is what the open connection sees, lp is what is  *)
(* committed.                                                              *)
(***************************************************************************)
EXTENDS Integers, Sequences, FiniteSets, Bags, TLC

\* ---------------------------------------------------------------- bounds
MaxRows == 2          \* grant rows in the permissions store before the first run

\* ------------------------------------------------------------ value sets
NULL == "NULL"
Uuids == {"A", "B"}
GroupIds == {1, 2}
GroupNames == {"mod", "helper"}
NoRow == [present |-> FALSE]

GROUP_PREFIX == "group."
CTX_GLOBAL == "{}"
CTX_OTHER == "{server=lobby}"
ACTOR_UUID == "00000000-0000-0000-0000-000000000000"
ACTOR_NAME == "AdmSync@bot"
PARENT_REMOVE == "parent remove "
PARENT_ADD == "parent add "

\* rows of adminmanager.users, keyed by uuid, and of adminmanager.groups, keyed
\* by id.  The weight column is not kept: ORDER BY weight is any order of the
\* rows (every order is the order of some weights, ties included).
UserRows == {NoRow} \cup [present : {TRUE}, group_id : GroupIds, frozen : BOOLEAN]
GroupRows == {NoRow} \cup [present : {TRUE}, minecraft_id : GroupNames \cup {NULL}]

\* rows of luckperms_user_permissions (server, world and expiry are not kept):
\* an active global grant, an inactive one, an active one of another context
Permission(group) == <<GROUP_PREFIX, group>>
RowStates == {<<1, CTX_GLOBAL>>, <<0, CTX_GLOBAL>>, <<1, CTX_OTHER>>}
PermRows == {[uuid |-> u, permission |-> Permission(g), value |-> st[1], contexts |-> st[2]] :
                u \in Uuids, g \in GroupNames, st \in RowStates}

\* luckperms_players: uuid -> username
luckperms_players == ("A" :> "alice")

\* ------------------------------------------------------------- dict, bag
EmptyMap == [k \in {} |-> {}]
EmptyDict == [order |-> <<>>, map |-> EmptyMap]
Keys(d) == DOMAIN d.map

RECURSIVE SeqToBag(_)
SeqToBag(s) == IF s = <<>> THEN EmptyBag ELSE SetToBag({Head(s)}) (+) SeqToBag(Tail(s))

BagsUpTo(S, n) == {SeqToBag(s) : s \in UNION {[1..k -> S] : k \in 0..n}}

Range(s) == {s[i] : i \in DOMAIN s}
Orders(S) == {s \in [1..Cardinality(S) -> S] : Range(s) = S}

\* -------------------------------------------------------------- variables
VARIABLES users, groupsTbl,   \* adminmanager database
          lp,                 \* luckperms database, committed
          lpdb,               \* luckperms database as seen by the open connection
          pc,
          groups, current_groups, toRemove, toAdd, added, removed,
          idx, pend,          \* group of the running loop, rows left of an executemany
          pre, select, commits, err, failedAt, prevDone,
          unique,             \* the grant table has a unique index over its rows
          ext                 \* grants another writer committed during the run

vars == <<users, groupsTbl, lp, lpdb, pc, groups, current_groups, toRemove, toAdd,
          added, removed, idx, pend, pre, select, commits, err, failedAt, prevDone,
          unique, ext>>

admVars == <<users, groupsTbl>>
diffVars == <<groups, current_groups, toRemove, toAdd>>
histVars == <<pre, select, prevDone>>
extVars == <<unique, ext>>

NoSelect == [sent |-> FALSE, params |-> {}]

Init ==
    /\ users \in [Uuids -> UserRows]
    /\ groupsTbl \in [GroupIds -> GroupRows]
    /\ \E p \in BagsUpTo(PermRows, MaxRows) : lp = [perms |-> p, actions |-> EmptyBag]
    /\ lpdb = lp
    /\ pre = lp
    /\ pc = "idle"
    /\ groups = EmptyDict
    /\ current_groups = EmptyDict
    /\ toRemove = EmptyDict
    /\ toAdd = EmptyDict
    /\ added = 0
    /\ removed = 0
    /\ idx = 0
    /\ pend = {}
    /\ select = NoSelect
    /\ commits = 0
    /\ err = "none"
    /\ failedAt = "none"
    /\ prevDone = FALSE
    /\ unique = FALSE
    /\ ext = EmptyBag

\* ------------------------------------------------- fetchModeratorsByGroup
\* a boolean column as the join returns it (NULL on the outer side)
SqlBool(b) == IF b THEN "1" ELSE "0"

\* users u RIGHT JOIN groups g ON u.group_id = g.id: one row per user of the
\* group, or one row with the user's columns NULL for a group without users.
RightJoin(u, g) ==
    UNION { LET members == {m \in Uuids : u[m].present /\ u[m].group_id = id}
            IN  IF members = {}
                THEN {[uid |-> NULL, uuid |-> NULL, frozen |-> NULL,
                       group_name |-> g[id].minecraft_id]}
                ELSE {[uid |-> m, uuid |-> m, frozen |-> SqlBool(u[m].frozen),
                       group_name |-> g[id].minecraft_id] : m \in members}
          : id \in {i \in GroupIds : g[i].present} }

\* mutant: WHERE g.minecraft_id IS NOT NULL AND (u.id IS NULL OR frozen = false)
WhereNamed(r) == r.group_name # NULL /\ (r.uid = NULL \/ r.frozen = SqlBool(FALSE))

\* WHERE u.id IS NULL OR (frozen = false AND g.minecraft_id IS NOT NULL)
Where(r) == r.uid = NULL \/ (r.frozen = SqlBool(FALSE) /\ r.group_name # NULL)

\* SELECT uuid, g.minecraft_id group_name
SelectModerators(u, g) == {<<r.uuid, r.group_name>> : r \in {x \in RightJoin(u, g) : Where(x)}}

\* for (uuid, groupName) in res: ...
RECURSIVE BuildGroups(_, _)
BuildGroups(res, d) ==
    IF res = <<>> THEN d
    ELSE LET uuid == Head(res)[1]
             groupName == Head(res)[2]
             d1 == IF groupName \notin Keys(d)
                   THEN [order |-> Append(d.order, groupName),
                         map |-> d.map @@ (groupName :> {})]
                   ELSE d
             d2 == IF uuid # NULL
                   THEN [d1 EXCEPT !.map[groupName] = @ \cup {uuid}]
                   ELSE d1
         IN  BuildGroups(Tail(res), d2)

\* ------------------------------------------ fetchCurrentModeratorsByGroup
\* mutant: WHERE permission IN (params), whatever the value and the contexts
SelectCurrentAll(perms, params) ==
    {<<r.uuid, r.permission>> : r \in {x \in BagToSet(perms) : x.permission \in params}}

\* WHERE permission IN (params) AND value = 1 AND contexts = '{}'
SelectCurrent(perms, params) ==
    {<<r.uuid, r.permission>> :
        r \in {x \in BagToSet(perms) :
                 x.permission \in params /\ x.value = 1 /\ x.contexts = CTX_GLOBAL}}

\* permission[len('group.'):]
StripPrefix(permission) == permission[2]

\* mutant: a key only for a group that has a row
BuildCurrentRows(keys, res) ==
    LET found == {StripPrefix(x[2]) : x \in res}
    IN  [order |-> SelectSeq(keys, LAMBDA k : k \in found),
         map |-> [k \in found |-> {r[1] : r \in {x \in res : StripPrefix(x[2]) = k}}]]

\* current_groups = { k: set() for k in groups }; then one add per row
BuildCurrent(keys, res) ==
    [order |-> keys,
     map |-> [k \in Range(keys) |-> {r[1] : r \in {x \in res : StripPrefix(x[2]) = k}}]]

\* ----------------------------------------------------------- updateGroups
\* mutant: a key that is missing reads as the empty set
ItemDefault(d, k) ==
    [raised |-> FALSE, value |-> IF k \in Keys(d) THEN d.map[k] ELSE {}]

\* d[k]: the value of the key, or a KeyError raised
Item(d, k) ==
    IF k \in Keys(d) THEN [raised |-> FALSE, value |-> d.map[k]]
                     ELSE [raised |-> TRUE, value |-> {}]

\* mutant: the operands of the difference swapped
ToRemoveSwapped(cur, des) ==
    [order |-> des.order, map |-> [k \in Keys(des) |-> des.map[k] \ cur.map[k]]]

\* toRemove = { k: current_groups[k] - groups[k] for k in groups }
ToRemove(cur, des) ==
    [order |-> des.order, map |-> [k \in Keys(des) |-> Item(cur, k).value \ des.map[k]]]

\* mutant: the current members are not subtracted
ToAddAll(cur, des) ==
    [order |-> des.order, map |-> [k \in Keys(des) |-> des.map[k]]]

\* toAdd = { k: groups[k] - current_groups[k] for k in groups }
\* mutant: the additions of the first group only, the others not computed yet
ToAddFirst(cur, des) ==
    [order |-> des.order,
     map |-> [k \in Keys(des) |-> IF k = des.order[1] THEN des.map[k] \ cur.map[k] ELSE {}]]

ToAdd(cur, des) ==
    [order |-> des.order, map |-> [k \in Keys(des) |-> des.map[k] \ Item(cur, k).value]]

\* mutant: every audit row says "parent add"
ActionRowAdd(uuid, action) ==
    [actor_uuid |-> ACTOR_UUID, actor_name |-> ACTOR_NAME, type |-> "U",
     acted_uuid |-> uuid,
     acted_name |-> IF uuid \in DOMAIN luckperms_players
                    THEN luckperms_players[uuid] ELSE "null",
     action |-> <<PARENT_ADD, action[2]>>]

\* logUsersAction: the row inserted into luckperms_actions for one uuid
ActionRow(uuid, action) ==
    [actor_uuid |-> ACTOR_UUID, actor_name |-> ACTOR_NAME, type |-> "U",
     acted_uuid |-> uuid,
     acted_name |-> IF uuid \in DOMAIN luckperms_players
                    THEN luckperms_players[uuid] ELSE "null",
     action |-> action]

\* mutant: no row for a uuid that luckperms_players does not know
LogInsertKnown(actions, uuid, action) ==
    IF uuid \in DOMAIN luckperms_players
    THEN actions (+) SetToBag({ActionRow(uuid, action)})
    ELSE actions

\* mutant: no audit row is written
LogInsertNone(actions, uuid, action) == actions

\* INSERT INTO luckperms_actions ... VALUES (...), for one uuid
LogInsert(actions, uuid, action) == actions (+) SetToBag({ActionRow(uuid, action)})

\* mutant: the DELETE without its condition on the permission
DeleteAnyGroup(perms, group, members) ==
    LET hit(r) == r.uuid \in members /\ r.value = 1 /\ r.contexts = CTX_GLOBAL
        keep == {r \in BagToSet(perms) : ~hit(r)}
    IN  [r \in keep |-> perms[r]]

\* DELETE FROM luckperms_user_permissions
\*   WHERE permission = %s AND uuid IN (...) AND value = 1 AND contexts = '{}'
DeleteWhere(perms, group, members) ==
    LET hit(r) == /\ r.permission = Permission(group)
                  /\ r.uuid \in members
                  /\ r.value = 1
                  /\ r.contexts = CTX_GLOBAL
        keep == {r \in BagToSet(perms) : ~hit(r)}
    IN  [r \in keep |-> perms[r]]

\* mutant: the grant inserted with value 0
GrantRowInactive(uuid, group) ==
    [uuid |-> uuid, permission |-> Permission(group), value |-> 0, contexts |-> CTX_GLOBAL]

\* INSERT INTO luckperms_user_permissions ... VALUES (%s, %s, '1', ..., '{}')
GrantRow(uuid, group) ==
    [uuid |-> uuid, permission |-> Permission(group), value |-> 1, contexts |-> CTX_GLOBAL]

\* mutant: the insert of a row that exists is not rejected
DuplicateIgnored(perms, row, uniq) == FALSE

\* the unique index rejects the insert of a row that is in the table
Duplicate(perms, row, uniq) == uniq /\ BagIn(row, perms)

\* mutant: the removals do not count
ShouldCommitAdded(a, r) == a # 0

\* if added or removed:
ShouldCommit(a, r) == a # 0 \/ r # 0

\* mutant: every statement is committed as it is executed
RollbackNone(committed, conn) == conn

\* what the store holds once a connection is closed without commit
Rollback(committed, conn) == committed

\* first group at or after position from with a non-empty set, 0 if none
NextNonEmpty(d, from) ==
    LET js == {j \in from..Len(d.order) : d.map[d.order[j]] # {}}
    IN  IF js = {} THEN 0 ELSE CHOOSE j \in js : \A k \in js : j <= k

\* the two for loops of updateGroups: where control is next, [pc, idx, pend]
Resume(phase, from, rem, add) ==
    LET jr == IF phase = "remove" THEN NextNonEmpty(rem, from) ELSE 0
        ja == NextNonEmpty(add, IF phase = "remove" THEN 1 ELSE from)
    IN  IF jr # 0 THEN [pc |-> "rm_log", idx |-> jr, pend |-> rem.map[rem.order[jr]]]
        ELSE IF ja # 0 THEN [pc |-> "add_log", idx |-> ja, pend |-> add.map[add.order[ja]]]
        ELSE [pc |-> "finish", idx |-> 0, pend |-> {}]

\* ---------------------------------------------------------------- syncTask
ResetLocals ==
    /\ groups' = EmptyDict
    /\ current_groups' = EmptyDict
    /\ toRemove' = EmptyDict
    /\ toAdd' = EmptyDict
    /\ added' = 0
    /\ removed' = 0
    /\ idx' = 0
    /\ pend' = {}

\* an exception leaves syncTask: both connections are closed, nothing committed
Raise(kind) ==
    /\ pc' = "failed"
    /\ err' = kind
    /\ failedAt' = pc
    /\ lpdb' = Rollback(lp, lpdb)
    /\ lp' = Rollback(lp, lpdb)
    /\ ResetLocals

\* with mysql.connector.connect(...) as admdb: with ... as lpdb:
StartRun ==
    /\ pc \in {"idle", "done", "failed"}
    /\ prevDone' = (pc = "done")
    /\ pc' = "fetchModerators"
    /\ lpdb' = lp
    /\ pre' = lp
    /\ ResetLocals
    /\ select' = NoSelect
    /\ commits' = 0
    /\ err' = "none"
    /\ failedAt' = "none"
    /\ ext' = EmptyBag
    /\ UNCHANGED <<admVars, lp, unique>>

FetchModeratorsByGroup ==
    /\ pc = "fetchModerators"
    /\ \E res \in Orders(SelectModerators(users, groupsTbl)) :
          groups' = BuildGroups(res, EmptyDict)
    /\ pc' = "fetchCurrent"
    /\ UNCHANGED <<admVars, extVars, lp, lpdb, current_groups, toRemove, toAdd, added, removed,
                   idx, pend, histVars, commits, err, failedAt>>

FetchCurrentModeratorsByGroup ==
    /\ pc = "fetchCurrent"
    /\ IF NULL \in Keys(groups)
       THEN \* 'group.' + None
            /\ Raise("TypeError")
            /\ UNCHANGED <<admVars, extVars, histVars, commits>>
       ELSE LET params == {Permission(x) : x \in Keys(groups)}
            IN  /\ select' = [sent |-> TRUE, params |-> params]
                /\ IF params = {}
                   THEN \* IN () is a syntax error
                        /\ Raise("ProgrammingError")
                        /\ UNCHANGED <<admVars, extVars, pre, prevDone, commits>>
                   ELSE /\ current_groups' =
                              BuildCurrent(groups.order, SelectCurrent(lpdb.perms, params))
                        /\ pc' = "updateGroups"
                        /\ UNCHANGED <<admVars, extVars, lp, lpdb, groups, toRemove, toAdd, added,
                                       removed, idx, pend, pre, prevDone, commits, err, failedAt>>

\* lines 131-134, up to the first statement sent to the store
ComputeDiff ==
    /\ pc = "updateGroups"
    /\ IF \E k \in Keys(groups) : Item(current_groups, k).raised
       THEN /\ Raise("KeyError")
            /\ UNCHANGED <<admVars, extVars, histVars, commits>>
       ELSE LET rem == ToRemove(current_groups, groups)
                add == ToAdd(current_groups, groups)
                to == Resume("remove", 1, rem, add)
            IN  /\ toRemove' = rem
                /\ toAdd' = add
                /\ added' = 0
                /\ removed' = 0
                /\ pc' = to.pc
                /\ idx' = to.idx
                /\ pend' = to.pend
                /\ UNCHANGED <<admVars, extVars, lp, lpdb, groups, current_groups, histVars,
                               commits, err, failedAt>>

\* one row of the executemany of logUsersAction
LogUsersAction ==
    /\ pc \in {"rm_log", "add_log"}
    /\ \E uuid \in pend :
          LET group == groups.order[idx]
              action == IF pc = "rm_log" THEN <<PARENT_REMOVE, group>>
                                         ELSE <<PARENT_ADD, group>>
          IN  /\ lpdb' = [lpdb EXCEPT !.actions = LogInsert(@, uuid, action)]
              /\ IF pend = {uuid}
                 THEN /\ pc' = IF pc = "rm_log" THEN "rm_delete" ELSE "add_insert"
                      /\ pend' = IF pc = "rm_log" THEN {} ELSE toAdd.map[group]
                 ELSE /\ pc' = pc
                      /\ pend' = pend \ {uuid}
    /\ UNCHANGED <<admVars, extVars, lp, diffVars, added, removed, idx, histVars, commits, err, failedAt>>

\* removeMembers after the log: the DELETE, and back to the loop
RemoveMembers ==
    /\ pc = "rm_delete"
    /\ LET group == toRemove.order[idx]
           members == toRemove.map[group]
           to == Resume("remove", idx + 1, toRemove, toAdd)
       IN  /\ lpdb' = [lpdb EXCEPT !.perms = DeleteWhere(@, group, members)]
           /\ removed' = removed + Cardinality(members)
           /\ pc' = to.pc
           /\ idx' = to.idx
           /\ pend' = to.pend
    /\ UNCHANGED <<admVars, extVars, lp, diffVars, added, histVars, commits, err, failedAt>>

\* addMembers after the log: one row of the executemany, and back to the loop
AddMembers ==
    /\ pc = "add_insert"
    /\ \E uuid \in pend :
          LET group == toAdd.order[idx]
              to == Resume("add", idx + 1, toRemove, toAdd)
          IN  IF Duplicate(lpdb.perms, GrantRow(uuid, group), unique)
              THEN /\ Raise("IntegrityError")
                   /\ UNCHANGED <<admVars, extVars, histVars, commits>>
              ELSE /\ lpdb' = [lpdb EXCEPT !.perms = @ (+) SetToBag({GrantRow(uuid, group)})]
                   /\ IF pend = {uuid}
                      THEN /\ added' = added + Cardinality(toAdd.map[group])
                           /\ pc' = to.pc
                           /\ idx' = to.idx
                           /\ pend' = to.pend
                      ELSE /\ pend' = pend \ {uuid}
                           /\ UNCHANGED <<added, pc, idx>>
                   /\ UNCHANGED <<admVars, extVars, lp, diffVars, removed, histVars,
                                  commits, err, failedAt>>

\* lines 142-144, and the end of syncTask
Finish ==
    /\ pc = "finish"
    /\ IF ShouldCommit(added, removed)
       THEN /\ lp' = lpdb
            /\ commits' = commits + 1
       ELSE UNCHANGED <<lp, commits>>
    /\ pc' = "done"
    /\ UNCHANGED <<admVars, extVars, lpdb, diffVars, added, removed, idx, pend, histVars, err, failedAt>>

\* a statement sent to one of the stores is rejected, or the store is unreachable
StoreError ==
    /\ \/ pc \in {"fetchModerators", "fetchCurrent", "rm_log", "rm_delete",
                  "add_log", "add_insert"}
       \/ pc = "finish" /\ ShouldCommit(added, removed)
    /\ Raise("DatabaseError")
    /\ UNCHANGED <<admVars, extVars, histVars, commits>>

Next ==
    \/ StartRun
    \/ FetchModeratorsByGroup
    \/ FetchCurrentModeratorsByGroup
    \/ ComputeDiff
    \/ LogUsersAction
    \/ RemoveMembers
    \/ AddMembers
    \/ Finish
    \/ StoreError

Spec == Init /\ [][Next]_vars

\* ------------------------------------------- a store with another writer
\* another connection commits a grant that is neither in the table nor deleted
\* by the open transaction (the insert would wait for it), between the
\* SELECT of the run and its commit; the DELETE and the INSERT of the run are
\* current reads and see it.  It writes once in a run, and only while the
\* audit table is empty (every commit of a run makes the table longer).
ExternalInsert ==
    /\ pc \in {"updateGroups", "rm_log", "rm_delete", "add_log", "add_insert"}
    /\ ext = EmptyBag
    /\ lp.actions = EmptyBag
    /\ \E uuid \in Uuids, group \in GroupNames :
          LET row == GrantRow(uuid, group)
          IN  /\ ~BagIn(row, lpdb.perms)
              /\ ~BagIn(row, lp.perms)
              /\ lp' = [lp EXCEPT !.perms = @ (+) SetToBag({row})]
              /\ lpdb' = [lpdb EXCEPT !.perms = @ (+) SetToBag({row})]
              /\ ext' = ext (+) SetToBag({row})
    /\ UNCHANGED <<admVars, unique, pc, diffVars, added, removed, idx, pend, histVars,
                   commits, err, failedAt>>

\* the grant table has a unique index and holds active global grants
InitConc ==
    /\ users \in [Uuids -> UserRows]
    /\ groupsTbl \in [GroupIds -> GroupRows]
    /\ \E S \in SUBSET {GrantRow(u, g) : u \in Uuids, g \in GroupNames} :
          /\ Cardinality(S) <= MaxRows
          /\ lp = [perms |-> SetToBag(S), actions |-> EmptyBag]
    /\ lpdb = lp
    /\ pre = lp
    /\ pc = "idle"
    /\ groups = EmptyDict
    /\ current_groups = EmptyDict
    /\ toRemove = EmptyDict
    /\ toAdd = EmptyDict
    /\ added = 0
    /\ removed = 0
    /\ idx = 0
    /\ pend = {}
    /\ select = NoSelect
    /\ commits = 0
    /\ err = "none"
    /\ failedAt = "none"
    /\ prevDone = FALSE
    /\ unique = TRUE
    /\ ext = EmptyBag

NextConc ==
    \/ StartRun
    \/ FetchModeratorsByGroup
    \/ FetchCurrentModeratorsByGroup
    \/ ComputeDiff
    \/ LogUsersAction
    \/ RemoveMembers
    \/ AddMembers
    \/ Finish
    \/ StoreError
    \/ ExternalInsert

SpecConc == InitConc /\ [][NextConc]_vars

\* ------------------------------------------- updateGroups called by itself
\* a dict of group names to sets of uuids, in any order of insertion
Dicts ==
    UNION {{[order |-> o, map |-> m] : o \in Orders(K), m \in [K -> SUBSET Uuids]} :
              K \in SUBSET GroupNames}

\* updateGroups(mydb, current_groups, groups) on a fresh connection, with any
\* two dicts; it has no connection to the adminmanager database
InitDirect ==
    /\ users = [u \in Uuids |-> NoRow]
    /\ groupsTbl = [i \in GroupIds |-> NoRow]
    /\ \E S \in SUBSET {GrantRow(u, g) : u \in Uuids, g \in GroupNames} :
          /\ Cardinality(S) <= MaxRows
          /\ lp = [perms |-> SetToBag(S), actions |-> EmptyBag]
    /\ lpdb = lp
    /\ pre = lp
    /\ pc = "updateGroups"
    /\ groups \in Dicts
    /\ current_groups \in Dicts
    /\ toRemove = EmptyDict
    /\ toAdd = EmptyDict
    /\ added = 0
    /\ removed = 0
    /\ idx = 0
    /\ pend = {}
    /\ select = NoSelect
    /\ commits = 0
    /\ err = "none"
    /\ failedAt = "none"
    /\ prevDone = FALSE
    /\ unique = FALSE
    /\ ext = EmptyBag

NextDirect ==
    \/ ComputeDiff
    \/ LogUsersAction
    \/ RemoveMembers
    \/ AddMembers
    \/ Finish
    \/ StoreError

SpecDirect == InitDirect /\ [][NextDirect]_vars

\* ------------------------------------------------- runs after a failed run
\* the statements at which StoreError strikes
FailurePoints == {"fetchModerators", "fetchCurrent", "rm_log", "rm_delete",
                  "add_log", "add_insert", "finish"}

\* syncTask has just failed at some statement: nothing but the committed
\* store is left of the run
InitRetry ==
    /\ users \in [Uuids -> UserRows]
    /\ groupsTbl \in [GroupIds -> GroupRows]
    /\ \E S \in SUBSET {GrantRow(u, g) : u \in Uuids, g \in GroupNames} :
          /\ Cardinality(S) <= MaxRows
          /\ lp = [perms |-> SetToBag(S), actions |-> EmptyBag]
    /\ lpdb = lp
    /\ pre = lp
    /\ pc = "failed"
    /\ err = "DatabaseError"
    /\ failedAt \in FailurePoints
    /\ groups = EmptyDict
    /\ current_groups = EmptyDict
    /\ toRemove = EmptyDict
    /\ toAdd = EmptyDict
    /\ added = 0
    /\ removed = 0
    /\ idx = 0
    /\ pend = {}
    /\ select = NoSelect
    /\ commits = 0
    /\ prevDone = FALSE
    /\ unique = FALSE
    /\ ext = EmptyBag

SpecRetry == InitRetry /\ [][Next]_vars

\* ================================================================ claims
\* members of group g by the active global-context grants of a grant table
ActiveMembers(perms, g) ==
    {r.uuid : r \in {x \in BagToSet(perms) :
                       x.permission = Permission(g) /\ x.value = 1 /\ x.contexts = CTX_GLOBAL}}

\* updateGroups has computed toRemove and toAdd and has not raised
Planned == pc \in {"rm_log", "rm_delete", "add_log", "add_insert", "finish", "done"}

\* the (group, member) pairs of a dict of sets
Pairs(d) == UNION {{<<g, m>> : m \in d.map[g]} : g \in Keys(d)}

\* audit rows of a table that name member m and group g, in either direction
AuditCount(actions, g, m) ==
    LET hit == {a \in BagToSet(actions) : a.acted_uuid = m /\ a.action[2] = g}
    IN  BagCardinality([a \in hit |-> actions[a]])

\* the grant table that results from table perms by the plan (rem, add)
PlanApplied(perms, now, rem, add) ==
    \A r \in BagToSet(perms) \cup BagToSet(now) :
        LET g == r.permission[2]
            active == r.value = 1 /\ r.contexts = CTX_GLOBAL
        IN  CopiesIn(r, now) =
                IF active /\ g \in Keys(rem) /\ r.uuid \in rem.map[g] THEN 0
                ELSE IF active /\ g \in Keys(add) /\ r.uuid \in add.map[g]
                     THEN CopiesIn(r, perms) + 1
                     ELSE CopiesIn(r, perms)

\* C1: when a run has ended without an error, the committed active global
\* membership of every group of the desired mapping equals its desired set.
C1_Convergence ==
    pc = "done" => \A g \in Keys(groups) : ActiveMembers(lp.perms, g) = groups.map[g]

C1_Witness ==
    /\ pc = "done"
    /\ commits = 1
    /\ \E g \in Keys(groups) : toRemove.map[g] # {} /\ toAdd.map[g] # {}
    /\ \A g \in Keys(groups) : ActiveMembers(lp.perms, g) = groups.map[g]

\* C2: a run that follows a completed run, the stores unchanged in between,
\* plans nothing for any group, adds and removes nothing, writes no audit row
\* and does not commit.
C2_Idempotence ==
    prevDone =>
        /\ pc \notin {"rm_log", "rm_delete", "add_log", "add_insert"}
        /\ Planned => /\ \A g \in Keys(groups) : toAdd.map[g] = {} /\ toRemove.map[g] = {}
                      /\ added = 0
                      /\ removed = 0
        /\ lpdb = pre
        /\ lp = pre
        /\ commits = 0

C2_Witness ==
    /\ prevDone
    /\ pc = "done"
    /\ pre.actions # EmptyBag
    /\ \E g \in Keys(groups) : groups.map[g] # {}

\* C3: the committed store changes only by the commit that ends a run, which
\* commits the whole plan; after a run that failed at any step the committed
\* grant and audit rows are those of before the run.
C3_Atomicity ==
    /\ pc = "failed" => lp = pre
    /\ pc \notin {"done", "failed"} => lp = pre
    /\ pc = "done" /\ lp # pre =>
          /\ PlanApplied(pre.perms, lp.perms, toRemove, toAdd)
          /\ BagCardinality(lp.actions) - BagCardinality(pre.actions)
                = Cardinality(Pairs(toRemove)) + Cardinality(Pairs(toAdd))

C3_Witness ==
    /\ pc = "failed"
    /\ failedAt \in {"rm_delete", "add_insert", "finish"}
    /\ lp = pre
    /\ lp.perms # EmptyBag

\* C4: for every group of the desired mapping the computed sets are disjoint,
\* nothing to add is a current member and everything to remove is one.
C4_Disjointness ==
    Planned =>
        /\ Keys(toAdd) = Keys(groups)
        /\ Keys(toRemove) = Keys(groups)
        /\ \A g \in Keys(groups) :
              /\ toAdd.map[g] \cap toRemove.map[g] = {}
              /\ toAdd.map[g] \cap current_groups.map[g] = {}
              /\ toRemove.map[g] \subseteq current_groups.map[g]
              /\ toAdd.map[g] \subseteq groups.map[g]
              /\ toRemove.map[g] \cap groups.map[g] = {}

C4_Witness ==
    /\ Planned
    /\ \E g \in Keys(groups) :
          /\ toAdd.map[g] # {}
          /\ toRemove.map[g] # {}
          /\ current_groups.map[g] \cap groups.map[g] = {}

\* C5: a run that has ended without an error has written one audit row for
\* every planned addition and one for every planned removal, and no other.
C5_AuditCompleteness ==
    pc = "done" =>
        /\ BagCardinality(lpdb.actions) - BagCardinality(pre.actions)
              = Cardinality(Pairs(toAdd)) + Cardinality(Pairs(toRemove))
        /\ \A g \in GroupNames, m \in Uuids :
              AuditCount(lpdb.actions, g, m) - AuditCount(pre.actions, g, m)
                 = IF <<g, m>> \in Pairs(toAdd) \cup Pairs(toRemove) THEN 1 ELSE 0

C5_Witness ==
    /\ pc = "done"
    /\ Cardinality(Pairs(toAdd)) + Cardinality(Pairs(toRemove)) >= 3
    /\ BagCardinality(lp.actions) - BagCardinality(pre.actions) >= 3

\* C6: a group that is no key of the desired mapping is no key of the plan,
\* and no run changes the number of copies of any of its grant rows or
\* writes an audit row that names it.
C6_OutOfScopeUntouched ==
    /\ Keys(toAdd) \subseteq Keys(groups)
    /\ Keys(toRemove) \subseteq Keys(groups)
    /\ \A r \in BagToSet(pre.perms) \cup BagToSet(lpdb.perms) \cup BagToSet(lp.perms) :
          r.permission[2] \notin Keys(groups) =>
             /\ CopiesIn(r, lpdb.perms) = CopiesIn(r, pre.perms)
             /\ CopiesIn(r, lp.perms) = CopiesIn(r, pre.perms)
    /\ \A a \in BagToSet(pre.actions) \cup BagToSet(lpdb.actions) \cup BagToSet(lp.actions) :
          a.action[2] \notin Keys(groups) =>
             /\ CopiesIn(a, lpdb.actions) = CopiesIn(a, pre.actions)
             /\ CopiesIn(a, lp.actions) = CopiesIn(a, pre.actions)

C6_Witness ==
    /\ pc = "done"
    /\ commits = 1
    /\ \E g \in GroupNames \ Keys(groups) : ActiveMembers(lp.perms, g) # {}
    /\ \E g \in Keys(groups) : toRemove.map[g] # {}

\* C7: no SELECT with an empty IN-list is sent to the permissions store.
C7_NoEmptyInList == select.sent => select.params # {}

\* C8: a run commits exactly when it has added or removed a membership, at
\* most once, and only after every planned removal and addition was issued.
C8_CommitIffChanged ==
    /\ commits <= 1
    /\ pc # "done" => commits = 0
    /\ pc = "done" => (commits = 1 <=> added + removed > 0)
    /\ commits = 1 =>
          /\ removed = Cardinality(Pairs(toRemove))
          /\ added = Cardinality(Pairs(toAdd))
          /\ lp = lpdb
          /\ PlanApplied(pre.perms, lp.perms, toRemove, toAdd)

C8_Witness ==
    /\ pc = "done"
    /\ commits = 1
    /\ added > 0
    /\ removed > 0
    /\ lp # pre

\* C9: the current mapping has exactly the requested keys, every one with the
\* members of its active global grants (none: the empty set), and the diff of
\* a run never raises a KeyError.
C9_KeyPresence ==
    /\ pc = "updateGroups" \/ Planned =>
          /\ Keys(current_groups) = Keys(groups)
          /\ current_groups.order = groups.order
          /\ \A g \in Keys(groups) : current_groups.map[g] = ActiveMembers(pre.perms, g)
    /\ err # "KeyError"

C9_Witness ==
    /\ pc = "updateGroups"
    /\ \E g \in Keys(groups) : current_groups.map[g] = {} /\ ActiveMembers(pre.perms, g) = {}
    /\ \E g \in Keys(groups) : current_groups.map[g] # {}

\* C10: every named group of the catalog without a member that is not frozen
\* is a key of the desired mapping, with the empty set unless a group of the
\* same name has such a member.
Qualifying(id) ==
    {m \in Uuids : users[m].present /\ users[m].group_id = id /\ ~users[m].frozen}

C10_EmptyGroupsPresent ==
    pc \in {"fetchCurrent", "updateGroups"} \/ Planned =>
        \A id \in GroupIds :
            groupsTbl[id].present /\ groupsTbl[id].minecraft_id # NULL /\ Qualifying(id) = {} =>
                /\ groupsTbl[id].minecraft_id \in Keys(groups)
                /\ (\A j \in GroupIds :
                        groupsTbl[j].present /\ groupsTbl[j].minecraft_id = groupsTbl[id].minecraft_id
                            => Qualifying(j) = {})
                   => groups.map[groupsTbl[id].minecraft_id] = {}

\* C11: the desired mapping is the one of the same tables without the rows of
\* the frozen users (same keys, same sets), and holds no frozen user.
Unfrozen(u) == [m \in Uuids |-> IF u[m].present /\ u[m].frozen THEN NoRow ELSE u[m]]

C11_FrozenAsAbsent ==
    pc \in {"fetchCurrent", "updateGroups"} \/ Planned =>
        /\ \A res \in Orders(SelectModerators(Unfrozen(users), groupsTbl)) :
              BuildGroups(res, EmptyDict).map = groups.map
        /\ \A g \in Keys(groups) : \A m \in groups.map[g] : ~users[m].frozen

\* C12: with a unique index on the grants, a run whose plan adds a grant that
\* another writer committed after the run's SELECT does not complete: the
\* insert is rejected in addMembers, and a failed run commits nothing of its
\* own (the committed store is the one of its start plus the other writer's
\* rows).
C12_DuplicateGrantAborts ==
    unique =>
        /\ pc = "done" => \A p \in Pairs(toAdd) : ~BagIn(GrantRow(p[2], p[1]), ext)
        /\ err = "IntegrityError" => failedAt = "add_insert"
        /\ pc = "failed" => lp = [pre EXCEPT !.perms = @ (+) ext]
        /\ pc # "done" => lp = [pre EXCEPT !.perms = @ (+) ext]

C12_Witness ==
    /\ unique
    /\ pc = "failed"
    /\ err = "IntegrityError"
    /\ ext # EmptyBag
    /\ lp = [pre EXCEPT !.perms = @ (+) ext]

\* C13: whatever runs failed before, a run that fails leaves the committed
\* store as it found it, and a run that completes leaves every group of the
\* desired mapping with exactly its desired members.
C13_SafeReinvocation ==
    /\ pc = "failed" => lp = pre /\ lpdb = pre
    /\ pc = "fetchModerators" => lpdb = lp /\ groups = EmptyDict /\ commits = 0
    /\ pc = "done" =>
          \A g \in Keys(groups) :
              {r.uuid : r \in {x \in BagToSet(lp.perms) : x = GrantRow(x.uuid, g)}}
                 = groups.map[g]

C13_Witness ==
    /\ pc = "done"
    /\ ~prevDone
    /\ commits = 1
    /\ added > 0
    /\ removed > 0
    /\ \A g \in Keys(groups) : ActiveMembers(lp.perms, g) = groups.map[g]

\* at most one active global grant row per (group, member)
NoDuplicates(perms) ==
    \A r \in BagToSet(perms) :
        r.value = 1 /\ r.contexts = CTX_GLOBAL => CopiesIn(r, perms) <= 1

\* C14: a run that starts from a store with at most one active global grant
\* row per (group, member) keeps it so, in its transaction and in the
\* committed store; the store a run starts from is the one the runs before
\* it left.
C14_NoDuplicateMemberships ==
    NoDuplicates(pre.perms) => NoDuplicates(lpdb.perms) /\ NoDuplicates(lp.perms)

C14_Witness ==
    /\ NoDuplicates(pre.perms)
    /\ pc = "done"
    /\ commits >= 1
    /\ lp = lpdb
    /\ \E g \in Keys(groups) :
          /\ toAdd.map[g] # {}
          /\ current_groups.map[g] \cap groups.map[g] # {}

\* the open transaction has written an audit row for member m, group g and
\* the direction dir
Audited(dir, g, m) ==
    CopiesIn(ActionRow(m, <<dir, g>>), lpdb.actions)
        > CopiesIn(ActionRow(m, <<dir, g>>), pre.actions)

\* C15: at every state of a run, a grant row of which the open transaction
\* holds fewer copies than the store the run started from has its
\* "parent remove" audit row in the transaction, one of which it holds more
\* has its "parent add" audit row; and when the DELETE or the INSERT of a
\* batch is about to be sent, the audit rows of the whole batch are written.
C15_AuditThenMutate ==
    /\ \A r \in BagToSet(pre.perms) \cup BagToSet(lpdb.perms) :
          /\ CopiesIn(r, lpdb.perms) < CopiesIn(r, pre.perms)
                => Audited(PARENT_REMOVE, StripPrefix(r.permission), r.uuid)
          /\ CopiesIn(r, lpdb.perms) > CopiesIn(r, pre.perms)
                => Audited(PARENT_ADD, StripPrefix(r.permission), r.uuid)
    /\ pc = "rm_delete" =>
          \A m \in toRemove.map[toRemove.order[idx]] :
              Audited(PARENT_REMOVE, toRemove.order[idx], m)
    /\ pc = "add_insert" =>
          \A m \in toAdd.map[toAdd.order[idx]] :
              Audited(PARENT_ADD, toAdd.order[idx], m)

C15_Witness ==
    /\ pc = "add_insert"
    /\ pend # {}
    /\ pend # toAdd.map[toAdd.order[idx]]
    /\ removed > 0
    /\ lpdb.perms # pre.perms
    /\ lp = pre

\* toRemove and toAdd hold, for every group of the desired mapping, the two
\* differences of lines 131-132
PlanComplete ==
    /\ Keys(toRemove) = Keys(groups)
    /\ Keys(toAdd) = Keys(groups)
    /\ \A k \in Keys(groups) :
          /\ k \in Keys(current_groups)
          /\ toRemove.map[k] = current_groups.map[k] \ groups.map[k]
          /\ toAdd.map[k] = groups.map[k] \ current_groups.map[k]

\* C16: a step of a run that writes an audit row, deletes or inserts grant
\* rows starts with toRemove and toAdd computed for every group of the
\* desired mapping and leaves them, and the two mappings they were computed
\* from, as they are; up to the computation of the plan the transaction has
\* written nothing.
C16_FullPlanBeforeApply ==
    [][/\ pc \in {"fetchModerators", "fetchCurrent", "updateGroups"} => lpdb = pre
       /\ (lpdb' # lpdb /\ pc' \notin {"failed", "fetchModerators"}) =>
             /\ PlanComplete
             /\ toRemove' = toRemove
             /\ toAdd' = toAdd
             /\ groups' = groups
             /\ current_groups' = current_groups]_vars

C16_Witness ==
    /\ pc = "add_insert"
    /\ idx = 1
    /\ Len(toAdd.order) = 2
    /\ toAdd.map[toAdd.order[2]] # {}
    /\ removed > 0
    /\ lpdb.perms # pre.perms
    /\ PlanComplete

\* the audit rows the open transaction has written
NewActions ==
    {a \in BagToSet(lpdb.actions) : CopiesIn(a, lpdb.actions) > CopiesIn(a, pre.actions)}

\* C17: when a run has ended without an error, the (member, action) pairs of
\* the audit rows it wrote are the pairs (m, "parent remove g") for m in
\* toRemove[g] and (m, "parent add g") for m in toAdd[g] and no others; every
\* such row has the fixed actor, and the grant row of its member and group
\* was deleted, or inserted, as the row says.
C17_AuditEntryContent ==
    pc = "done" =>
        /\ {<<a.acted_uuid, a.action>> : a \in NewActions}
              = {<<p[2], <<PARENT_REMOVE, p[1]>>>> : p \in Pairs(toRemove)}
                  \cup {<<p[2], <<PARENT_ADD, p[1]>>>> : p \in Pairs(toAdd)}
        /\ \A a \in NewActions :
              LET row == [uuid |-> a.acted_uuid, permission |-> <<GROUP_PREFIX, a.action[2]>>,
                          value |-> 1, contexts |-> CTX_GLOBAL]
              IN  /\ a.actor_uuid = ACTOR_UUID
                  /\ a.actor_name = ACTOR_NAME
                  /\ a.action[1] = PARENT_REMOVE =>
                        CopiesIn(row, lpdb.perms) = 0 /\ CopiesIn(row, pre.perms) > 0
                  /\ a.action[1] = PARENT_ADD =>
                        CopiesIn(row, lpdb.perms) = 1 /\ CopiesIn(row, pre.perms) = 0

C17_Witness ==
    /\ pc = "done"
    /\ Pairs(toRemove) # {}
    /\ Pairs(toAdd) # {}
    /\ Cardinality(NewActions) >= 2
    /\ lp = lpdb

\* C18: updateGroups, called with a desired mapping one of whose keys is no
\* key of the current mapping, ends in its first step with a KeyError: no
\* audit row written, no grant row deleted or inserted, nothing committed.
C18_MissingKeyFailsFirst ==
    [][(pc = "updateGroups" /\ ~(Keys(groups) \subseteq Keys(current_groups))) =>
          /\ pc' = "failed"
          /\ err' = "KeyError"
          /\ failedAt' = "updateGroups"
          /\ lpdb = pre
          /\ lpdb' = pre
          /\ lp' = pre
          /\ commits' = commits]_vars

C18_Witness ==
    /\ pc = "failed"
    /\ err = "KeyError"
    /\ failedAt = "updateGroups"
    /\ lp.perms # EmptyBag
    /\ lp = pre
    /\ lpdb = pre
    /\ commits = 0

\* a grant row that is active and of the global context
ActiveGlobal(r) == r.value = 1 /\ r.contexts = CTX_GLOBAL

\* C19: every member that fetchCurrentModeratorsByGroup returned for a group
\* has an active global grant row of that group in the store the run read,
\* and a grant row that is inactive or of another context has, at every
\* state, as many copies in the transaction and in the committed store as
\* in the store the run started from.
C19_OnlyActiveGlobal ==
    /\ pc = "updateGroups" \/ Planned =>
          \A g \in Keys(current_groups) : \A m \in current_groups.map[g] :
              \E r \in BagToSet(pre.perms) :
                  /\ r.uuid = m
                  /\ r.permission = <<GROUP_PREFIX, g>>
                  /\ ActiveGlobal(r)
    /\ \A r \in BagToSet(pre.perms) \cup BagToSet(lpdb.perms) \cup BagToSet(lp.perms) :
          ~ActiveGlobal(r) =>
              /\ CopiesIn(r, lpdb.perms) = CopiesIn(r, pre.perms)
              /\ CopiesIn(r, lp.perms) = CopiesIn(r, pre.perms)

C19_Witness ==
    /\ pc = "done"
    /\ removed > 0
    /\ commits >= 1
    /\ lp = lpdb
    /\ \E r \in BagToSet(lp.perms) :
          /\ ~ActiveGlobal(r)
          /\ StripPrefix(r.permission) \in Keys(toRemove)
          /\ r.uuid \in toRemove.map[StripPrefix(r.permission)]

\* the catalog has a group without minecraft_id and without users
NullGroup ==
    \E id \in GroupIds :
        /\ groupsTbl[id].present
        /\ groupsTbl[id].minecraft_id = NULL
        /\ \A m \in Uuids : ~(users[m].present /\ users[m].group_id = id)

\* C20: with a group without minecraft_id and without users in the catalog,
\* the desired mapping has the key None, and the run gets no further than
\* fetchCurrentModeratorsByGroup: it raises TypeError there before the SELECT
\* is sent, the transaction has written nothing and nothing is ever
\* committed; None is a key of the desired mapping in no other case.
C20_NullKeyAborts ==
    /\ NullGroup /\ pc = "fetchCurrent" => NULL \in Keys(groups)
    /\ NULL \in Keys(groups) => NullGroup /\ pc = "fetchCurrent"
    /\ NullGroup =>
          /\ pc \in {"idle", "fetchModerators", "fetchCurrent", "failed"}
          /\ lpdb = pre
          /\ lp = pre
          /\ commits = 0
          /\ ~select.sent
          /\ failedAt = "fetchCurrent" => err \in {"TypeError", "DatabaseError"}
    /\ err = "TypeError" => NullGroup /\ failedAt = "fetchCurrent"

C20_Witness ==
    /\ pc = "failed"
    /\ err = "TypeError"
    /\ failedAt = "fetchCurrent"
    /\ NullGroup
    /\ lp = pre
    /\ \E m \in Uuids :
          /\ users[m].present
          /\ ~users[m].frozen
          /\ groupsTbl[users[m].group_id].present
          /\ groupsTbl[users[m].group_id].minecraft_id # NULL
          /\ \A r \in BagToSet(lp.perms) :
                ~(r.uuid = m /\ r.permission = <<GROUP_PREFIX, groupsTbl[users[m].group_id].minecraft_id>>)
====
